---- MODULE Spec2Model ----
(***************************************************************************)
(* Model of the document pipeline of utils.py (DocumentProcessor):         *)
(* extract_text_from_word (sections, tables, signatures, document type),   *)
(* validate_document and export_to_csv / _flatten_json.                    *)
(*                                                                         *)
(* Text is modelled as a sequence of tokens (a token is a word, a blank    *)
(* or a line break); str methods are operators over such sequences.        *)
(* A Python dict is modelled as a sequence of [key, value] entries in      *)
(* insertion order, since the code iterates dicts in that order.           *)
(***************************************************************************)
EXTENDS Naturals, Sequences, FiniteSets

VARIABLES
    doc,            \* the parsed Word document: [paragraphs, tables]
    sections,       \* result["sections"]
    tables,         \* result["tables"]
    signatures,     \* result["signatures"]
    document_type,  \* result["document_type"]
    dates,          \* the optional date keys of doc_data handed to validate_document
    validations,    \* the dict validate_document returns
    analysis,       \* the nested JSON export_to_csv loads
    flat_data,      \* the flat dict export_to_csv builds
    pc              \* position in the pipeline

vars == <<doc, sections, tables, signatures, document_type, dates,
          validations, analysis, flat_data, pc>>

----------------------------------------------------------------------------
(* Bounds of the model *)

MaxParas == 4
MaxClassParas == 3
MaxSigParas == 3
MaxValParas == 5
MaxTables == 2
MaxRows == 2
MaxTableSeq == 3
MaxDate == 2
MaxNodes == 3

----------------------------------------------------------------------------
(* Generic helpers *)

Range(s) == {s[i] : i \in 1..Len(s)}

SeqsUpTo(S, n) == UNION {[1..k -> S] : k \in 0..n}

\* str.lower, token by token
LowerTok(t) ==
    CASE t = "A" -> "a"
      [] t = "B" -> "b"
      [] t = "Header" -> "header"
      [] t = "Parties" -> "parties"
      [] t = "TERMS" -> "terms"
      [] t = "Signed" -> "signed"
      [] t = "By" -> "by"
      [] t = "SIGNATURE" -> "signature"
      [] t = "IN" -> "in"
      [] t = "WITNESS" -> "witness"
      [] t = "WHEREOF" -> "whereof"
      [] t = "Lease" -> "lease"
      [] t = "LOAN" -> "loan"
      [] t = "SLA" -> "sla"
      [] t = "Rate" -> "rate"
      [] OTHER -> t

lower(s) == [i \in 1..Len(s) |-> LowerTok(s[i])]

\* str.replace(old, new) for one-token old and new
replace(s, old, new) == [i \in 1..Len(s) |-> IF s[i] = old THEN new ELSE s[i]]

Whitespace == {" ", "\n", "\t"}

RECURSIVE lstrip(_)
lstrip(s) == IF s # <<>> /\ Head(s) \in Whitespace THEN lstrip(Tail(s)) ELSE s

RECURSIVE rstrip(_)
rstrip(s) ==
    IF s # <<>> /\ s[Len(s)] \in Whitespace THEN rstrip(SubSeq(s, 1, Len(s) - 1)) ELSE s

\* str.strip()
strip(s) == rstrip(lstrip(s))

\* sep.join(list)
RECURSIVE join(_, _)
join(sep, list) ==
    IF list = <<>> THEN <<>>
    ELSE IF Len(list) = 1 THEN list[1]
    ELSE list[1] \o sep \o join(sep, Tail(list))

\* str.startswith(prefix)
startswith(s, prefix) ==
    Len(s) >= Len(prefix) /\ SubSeq(s, 1, Len(prefix)) = prefix

\* `sub in text` and re.search(sub, text) for a literal pattern
contains(text, sub) ==
    \E i \in 1..(Len(text) + 1) :
        i + Len(sub) - 1 <= Len(text) /\ SubSeq(text, i, i + Len(sub) - 1) = sub

\* dict helpers: a dict is a sequence of entries in insertion order
Keys(d) == {d[i].key : i \in 1..Len(d)}

Values(d) == [i \in 1..Len(d) |-> d[i].value]

Get(d, k) == d[CHOOSE i \in 1..Len(d) : d[i].key = k].value

\* d[k] = v: replaces the value in place, or appends a new entry
DictSet(d, k, v) ==
    IF k \in Keys(d)
    THEN [i \in 1..Len(d) |-> IF d[i].key = k THEN [key |-> k, value |-> v] ELSE d[i]]
    ELSE Append(d, [key |-> k, value |-> v])

----------------------------------------------------------------------------
(* _extract_sections *)

HeadingPrefix == <<"Heading">>

NL == <<"\n">>

\* a flush that forgets the `if current_text:` test
CloseSectionAlways(secs, current_section, current_text) ==
    DictSet(secs, current_section, join(NL, current_text))

\* the flush of the accumulator under the current section name, only when non-empty
CloseSection(secs, current_section, current_text) ==
    IF current_text # <<>>
    THEN DictSet(secs, current_section, join(NL, current_text))
    ELSE secs

\* the section name a heading opens
SectionName(text) == replace(lower(text), " ", "_")

RECURSIVE SectionsLoop(_, _, _, _, _)
SectionsLoop(paragraphs, i, secs, current_section, current_text) ==
    IF i > Len(paragraphs)
    THEN CloseSection(secs, current_section, current_text)
    ELSE LET text == strip(paragraphs[i].text) IN
         IF text = <<>>
         THEN SectionsLoop(paragraphs, i + 1, secs, current_section, current_text)
         ELSE IF startswith(paragraphs[i].style, HeadingPrefix)
         THEN SectionsLoop(paragraphs, i + 1,
                           CloseSection(secs, current_section, current_text),
                           SectionName(text), <<>>)
         ELSE SectionsLoop(paragraphs, i + 1, secs, current_section,
                           Append(current_text, text))

_extract_sections(paragraphs) ==
    SectionsLoop(paragraphs, 1, <<>>, <<"header">>, <<>>)

----------------------------------------------------------------------------
(* _extract_tables *)

None == "None"

Max(S) == CHOOSE x \in S : \A y \in S : y <= x

\* data[1:]
Rest(data) == SubSeq(data, 2, Len(data))

\* data[0] of an empty list raises IndexError; pd.DataFrame(data[1:], columns=data[0])
\* pads the data rows to the longest of them and raises when that length differs
\* from the number of columns; an empty data[1:] gives an empty frame.
ConversionFails(data) ==
    \/ Len(data) = 0
    \/ /\ Len(data) >= 2
       /\ Max({Len(Rest(data)[i]) : i \in 1..(Len(data) - 1)}) # Len(data[1])

\* one record of df.to_dict('records'): dict(zip(columns, row)), so the last
\* column bearing a name wins; a padded cell is None
RowDict(columns, row) ==
    [h \in Range(columns) |->
        LET j == Max({c \in 1..Len(columns) : columns[c] = h})
        IN  IF j <= Len(row) THEN row[j] ELSE None]

ToDictRecords(data) ==
    [i \in 1..(Len(data) - 1) |-> RowDict(data[1], data[i + 1])]

\* f"Table {len(tables) + 1}"
TableLabel(count) == <<"Table", count + 1>>

TableDict(data, count) ==
    [headers |-> data[1], data |-> ToDictRecords(data), location |-> TableLabel(count)]

\* a loop that stops at the first table whose conversion raises
RECURSIVE TablesLoopBreak(_, _, _)
TablesLoopBreak(doc_tables, t, out) ==
    IF t > Len(doc_tables) THEN out
    ELSE IF ConversionFails(doc_tables[t])
    THEN out
    ELSE TablesLoopBreak(doc_tables, t + 1,
                         Append(out, TableDict(doc_tables[t], Len(out))))

\* for table in doc.tables: try ... except Exception: continue
RECURSIVE TablesLoop(_, _, _)
TablesLoop(doc_tables, t, out) ==
    IF t > Len(doc_tables) THEN out
    ELSE IF ConversionFails(doc_tables[t])
    THEN TablesLoop(doc_tables, t + 1, out)
    ELSE TablesLoop(doc_tables, t + 1, Append(out, TableDict(doc_tables[t], Len(out))))

_extract_tables(doc_tables) == TablesLoop(doc_tables, 1, <<>>)

----------------------------------------------------------------------------
(* _detect_signatures *)

signature_indicators ==
    << <<"signature">>,
       <<"signed", " ", "by">>,
       <<"authorized", " ", "signatory">>,
       <<"in", " ", "witness", " ", "whereof">> >>

\* any(re.search(pattern, text) for pattern in signature_indicators)
AnyIndicator(text) ==
    \E p \in 1..Len(signature_indicators) : contains(text, signature_indicators[p])

\* a join of the paragraphs with blanks instead of line breaks
SignatureTextSpaceJoined(paragraphs) ==
    join(<<" ">>, [i \in 1..Len(paragraphs) |-> lower(paragraphs[i].text)])

\* "\n".join([p.text.lower() for p in doc.paragraphs])
SignatureText(paragraphs) ==
    join(NL, [i \in 1..Len(paragraphs) |-> lower(paragraphs[i].text)])

RECURSIVE LocationsLoop(_, _, _)
LocationsLoop(paragraphs, i, locations) ==
    IF i > Len(paragraphs) THEN locations
    ELSE IF AnyIndicator(lower(paragraphs[i].text))
    THEN LocationsLoop(paragraphs, i + 1, Append(locations, <<"Paragraph", i>>))
    ELSE LocationsLoop(paragraphs, i + 1, locations)

_detect_signatures(paragraphs) ==
    [has_signature_block |-> AnyIndicator(SignatureText(paragraphs)),
     signature_locations |-> LocationsLoop(paragraphs, 1, <<>>)]

----------------------------------------------------------------------------
(* _classify_document *)

LEASE == "lease"
LOAN == "loan"
MSA == "msa"

\* the rules dict, in insertion order
rules ==
    << [key |-> LEASE,
        value |-> << <<"lease">>, <<"tenant">>, <<"landlord">>, <<"rent">>,
                     <<"property">> >>],
       [key |-> LOAN,
        value |-> << <<"loan">>, <<"borrower">>, <<"lender">>,
                     <<"interest", " ", "rate">>, <<"principal">> >>],
       [key |-> MSA,
        value |-> << <<"services">>, <<"statement", " ", "of", " ", "work">>,
                     <<"sla">>, <<"deliverables">> >>] >>

\* " ".join(sections.values()).lower()
ClassifyText(secs) == lower(join(<<" ">>, Values(secs)))

\* sum(1 for keyword in keywords if keyword in text)
Score(keywords, text) ==
    Cardinality({k \in 1..Len(keywords) : contains(text, keywords[k])})

Scores(secs) ==
    [r \in 1..Len(rules) |->
        [key |-> rules[r].key, value |-> Score(rules[r].value, ClassifyText(secs))]]

\* a maximum that keeps the last of the items sharing the highest value
RECURSIVE MaxLoopLast(_, _, _)
MaxLoopLast(items, i, best) ==
    IF i > Len(items) THEN best
    ELSE IF items[i].value >= best.value
    THEN MaxLoopLast(items, i + 1, items[i])
    ELSE MaxLoopLast(items, i + 1, best)

\* max(items, key=...): the first item whose key is not exceeded
RECURSIVE MaxLoop(_, _, _)
MaxLoop(items, i, best) ==
    IF i > Len(items) THEN best
    ELSE IF items[i].value > best.value
    THEN MaxLoop(items, i + 1, items[i])
    ELSE MaxLoop(items, i + 1, best)

MaxByValue(items) == MaxLoop(items, 2, items[1])

_classify_document(secs) == MaxByValue(Scores(secs)).key

----------------------------------------------------------------------------
(* extract_text_from_word *)

NoSignatures == [has_signature_block |-> FALSE, signature_locations |-> <<>>]

NoDates == [k \in {} |-> 0]

ExtractTextFromWord ==
    /\ pc = "uploaded"
    /\ sections' = _extract_sections(doc.paragraphs)
    /\ tables' = _extract_tables(doc.tables)
    /\ signatures' = _detect_signatures(doc.paragraphs)
    /\ document_type' = _classify_document(sections')
    /\ pc' = "extracted"
    /\ UNCHANGED <<doc, dates, validations, analysis, flat_data>>

InitResults ==
    /\ sections = <<>>
    /\ tables = <<>>
    /\ signatures = NoSignatures
    /\ document_type = "none"
    /\ dates = NoDates
    /\ validations = NoDates
    /\ analysis = <<>>
    /\ flat_data = <<>>

----------------------------------------------------------------------------
(* Documents whose paragraphs exercise section splitting *)

HeadingStyle == <<"Heading", " ", "1">>
NormalStyle == <<"Normal">>

SectionTexts ==
    { <<" ">>, <<"A">>, <<"a">>, <<"Header">>, <<" ", "b", " ">> }

SectionParagraphs == [text : SectionTexts, style : {HeadingStyle, NormalStyle}]

InitSections ==
    /\ doc \in [paragraphs : SeqsUpTo(SectionParagraphs, MaxParas), tables : {<<>>}]
    /\ InitResults
    /\ pc = "uploaded"

NextExtract == ExtractTextFromWord

SpecSections == InitSections /\ [][NextExtract]_vars

----------------------------------------------------------------------------
(* Claims about _extract_sections *)

Paras == doc.paragraphs

IsBlank(text) == \A i \in 1..Len(text) : text[i] \in Whitespace

HeadingStyled(p) == startswith(p.style, HeadingPrefix)

\* the paragraphs the loop treats as headings, and as body text
HeadingAt(i) == HeadingStyled(Paras[i]) /\ ~IsBlank(Paras[i].text)
BodyAt(i) == ~HeadingStyled(Paras[i]) /\ ~IsBlank(Paras[i].text)

HeadingTexts == {strip(Paras[i].text) : i \in {j \in 1..Len(Paras) : HeadingAt(j)}}

\* the section name in force at paragraph i
NameInForce(i) ==
    LET hs == {j \in 1..(i - 1) : HeadingAt(j)}
    IN  IF hs = {} THEN <<"header">> ELSE SectionName(strip(Paras[Max(hs)].text))

NamesWithBody == {NameInForce(i) : i \in {j \in 1..Len(Paras) : BodyAt(j)}}

\* C1 as stated: with at least one heading paragraph, the number of entries is the
\* number of distinct heading texts, plus at most one for 'header'.
C1_Original ==
    (pc = "extracted" /\ \E i \in 1..Len(Paras) : HeadingAt(i))
        => \E extra \in {0, 1} : Len(sections) = Cardinality(HeadingTexts) + extra

\* C1 (amended): the entries of the SectionMap are exactly the section names
\* ('header' and the normalised heading texts) that have a non-blank body paragraph
\* before the next heading, one entry each; so there are at most as many entries as
\* distinct heading texts, plus one.
C1_SectionCount ==
    pc = "extracted" =>
        /\ Keys(sections) = NamesWithBody
        /\ Len(sections) = Cardinality(NamesWithBody)
        /\ Len(sections) <= Cardinality(HeadingTexts) + 1

C1_Witness ==
    /\ pc = "extracted"
    /\ Cardinality(HeadingTexts) = 2
    /\ Len(sections) = 1
    /\ <<"header">> \notin Keys(sections)

BodyTexts ==
    LET idx == {j \in 1..Len(Paras) : ~IsBlank(Paras[j].text)}
        F[i \in 0..Len(Paras)] ==
            IF i = 0 THEN <<>>
            ELSE IF i \in idx THEN Append(F[i - 1], strip(Paras[i].text)) ELSE F[i - 1]
    IN  F[Len(Paras)]

NoHeadingStyled == \A i \in 1..Len(Paras) : ~HeadingStyled(Paras[i])

\* the document ends with a heading that no non-blank body paragraph follows
TrailingHeading(t) ==
    /\ t \in 1..Len(Paras)
    /\ HeadingAt(t)
    /\ \A j \in (t + 1)..Len(Paras) : IsBlank(Paras[j].text)

\* C2 as stated: a document without heading paragraphs yields exactly the entry
\* 'header' holding all non-blank text, a trailing heading without body yields no
\* entry, and no stored value is empty.
C2_Original ==
    pc = "extracted" =>
        /\ NoHeadingStyled =>
               sections = << [key |-> <<"header">>, value |-> join(NL, BodyTexts)] >>
        /\ \A t \in 1..Len(Paras) :
               TrailingHeading(t) => SectionName(strip(Paras[t].text)) \notin Keys(sections)
        /\ \A e \in 1..Len(sections) : sections[e].value # <<>>

\* C2 (amended): a section is stored only for a name that has body text; a document
\* without heading paragraphs yields exactly the entry 'header' holding all non-blank
\* text when it has such text and no entry when it has none; a trailing heading
\* without body stores nothing (the SectionMap is that of the document cut before
\* it); and no stored value is empty.
C2_Flush ==
    pc = "extracted" =>
        /\ Keys(sections) \subseteq NamesWithBody
        /\ NoHeadingStyled =>
               sections = IF BodyTexts = <<>> THEN <<>>
                          ELSE << [key |-> <<"header">>, value |-> join(NL, BodyTexts)] >>
        /\ \A t \in 1..Len(Paras) :
               TrailingHeading(t) => sections = _extract_sections(SubSeq(Paras, 1, t - 1))
        /\ \A e \in 1..Len(sections) : sections[e].value # <<>>

C2_Witness ==
    /\ pc = "extracted"
    /\ \E t \in 2..Len(Paras) :
           TrailingHeading(t) /\ SectionName(strip(Paras[t].text)) \notin Keys(sections)
    /\ Len(sections) = 2

----------------------------------------------------------------------------
(* Documents whose tables exercise table extraction *)

\* the cells of a row: a one-cell row, a two-cell row, and a row repeating a cell
\* (python-docx yields a merged cell once per grid column it spans)
TableRows == { <<"Name">>, <<"Name", "Amount">>, <<"Name", "Name">> }

SourceTables == SeqsUpTo(TableRows, MaxRows)

InitTables ==
    /\ doc \in [paragraphs : {<<>>}, tables : SeqsUpTo(SourceTables, MaxTables)]
    /\ InitResults
    /\ pc = "uploaded"

SpecTables == InitTables /\ [][NextExtract]_vars

\* Documents with longer sequences of tables, each one of: no row, a header row
\* only, a regular table, data rows longer or shorter than the header, a repeated
\* header cell, and a short last row that is padded
SampleTables ==
    { <<>>,
      << <<"Name", "Amount">> >>,
      << <<"Name", "Amount">>, <<"Name", "Amount">>, <<"Name", "Amount">> >>,
      << <<"Name">>, <<"Name", "Amount">> >>,
      << <<"Name", "Amount">>, <<"Name">> >>,
      << <<"Name", "Name">>, <<"Name", "Amount">> >>,
      << <<"Name", "Amount">>, <<"Name", "Amount">>, <<"Name">> >> }

InitTableSeq ==
    /\ doc \in [paragraphs : {<<>>}, tables : SeqsUpTo(SampleTables, MaxTableSeq)]
    /\ InitResults
    /\ pc = "uploaded"

SpecTableSeq == InitTableSeq /\ [][NextExtract]_vars

----------------------------------------------------------------------------
(* Claims about _extract_tables *)

\* N >= 2 rows, every row with as many cells as the first
WellFormed(T) == Len(T) >= 2 /\ \A r \in 1..Len(T) : Len(T[r]) = Len(T[1])

\* C3: a table with N >= 2 rows and no malformed row yields a record with N-1 data
\* rows, the first row's cells as headers, and each data row a mapping with as many
\* keys as headers, header j mapped to cell j of the source row.
C3_Original ==
    pc = "extracted" =>
        \A t \in 1..Len(doc.tables) :
            LET T == doc.tables[t] IN
            WellFormed(T) =>
                \E k \in 1..Len(tables) :
                    /\ tables[k].headers = T[1]
                    /\ Len(tables[k].data) = Len(T) - 1
                    /\ \A i \in 1..(Len(T) - 1) :
                           /\ Cardinality(DOMAIN tables[k].data[i]) = Len(T[1])
                           /\ \A j \in 1..Len(T[1]) :
                                  tables[k].data[i][T[1][j]] = T[i + 1][j]

\* C4: a table with fewer than 2 rows yields no record and consumes no label, so
\* the output is that of the document without such tables.
C4_Original ==
    pc = "extracted" =>
        tables = _extract_tables(SelectSeq(doc.tables, LAMBDA T : Len(T) >= 2))

\* the source indices of the tables whose conversion succeeds, ascending
Accepted ==
    LET F[t \in 0..Len(doc.tables)] ==
            IF t = 0 THEN <<>>
            ELSE IF ConversionFails(doc.tables[t]) THEN F[t - 1] ELSE Append(F[t - 1], t)
    IN  F[Len(doc.tables)]

\* C5: whichever tables fail conversion, every later table is still processed, the
\* accepted tables keep their source order, and the k-th accepted table is labelled
\* 'Table k' whatever its index among the source tables.
C5_Labels ==
    pc = "extracted" =>
        /\ Len(tables) = Len(Accepted)
        /\ \A k \in 1..Len(tables) :
               /\ tables[k].headers = doc.tables[Accepted[k]][1]
               /\ tables[k].data = ToDictRecords(doc.tables[Accepted[k]])
               /\ tables[k].location = <<"Table", k>>

C5_Witness ==
    /\ pc = "extracted"
    /\ Len(doc.tables) = 3
    /\ ~ConversionFails(doc.tables[1])
    /\ Len(doc.tables[2]) >= 2
    /\ ConversionFails(doc.tables[2])
    /\ Len(tables) = 2
    /\ tables[2].location = <<"Table", 2>>
    /\ tables[2].headers = doc.tables[3][1]
    /\ Len(tables[2].data) = 2

----------------------------------------------------------------------------
(* Documents whose paragraphs exercise signature detection *)

SignatureTexts ==
    { <<>>, <<"x">>, <<"signed">>, <<"by">>, <<" ", "by">>, <<"signed", " ">>,
      <<"Signed", " ", "By">>, <<"signed", "\n", "by">>, <<"SIGNATURE">>,
      <<"authorized", " ">>, <<"signatory">>,
      <<"IN", " ", "WITNESS", " ", "WHEREOF", " ", "x">> }

SignatureParagraphs == [text : SignatureTexts, style : {NormalStyle}]

InitSignatures ==
    /\ doc \in [paragraphs : SeqsUpTo(SignatureParagraphs, MaxSigParas), tables : {<<>>}]
    /\ InitResults
    /\ pc = "uploaded"

SpecSignatures == InitSignatures /\ [][NextExtract]_vars

----------------------------------------------------------------------------
(* Claims about _detect_signatures *)

Matches(text) ==
    \E p \in 1..Len(signature_indicators) : contains(lower(text), signature_indicators[p])

\* the labels of the paragraphs that match an indicator themselves, ascending,
\* every paragraph counted
MatchingParagraphs ==
    LET F[i \in 0..Len(Paras)] ==
            IF i = 0 THEN <<>>
            ELSE IF Matches(Paras[i].text) THEN Append(F[i - 1], <<"Paragraph", i>>)
            ELSE F[i - 1]
    IN  F[Len(Paras)]

\* C6: has_signature_block is true exactly when an indicator matches the lower-cased
\* text of the document (the paragraphs joined by line breaks); the locations are
\* 'Paragraph i', ascending, for exactly the paragraphs i that match an indicator
\* themselves; so has_signature_block is true iff there is a location.
C6_Signatures ==
    pc = "extracted" =>
        /\ signatures.has_signature_block
               = Matches(join(NL, [i \in 1..Len(Paras) |-> Paras[i].text]))
        /\ signatures.signature_locations = MatchingParagraphs
        /\ signatures.has_signature_block <=> signatures.signature_locations # <<>>

C6_Witness ==
    /\ pc = "extracted"
    /\ Len(Paras) = 3
    /\ IsBlank(Paras[1].text)
    /\ Paras[2].text = <<"signed">>
    /\ signatures.has_signature_block
    /\ signatures.signature_locations = << <<"Paragraph", 3>> >>

----------------------------------------------------------------------------
(* Documents whose paragraphs exercise classification *)

ClassTexts ==
    { <<"x">>, <<"Lease">>, <<"tenant", " ", "rent">>, <<"LOAN">>,
      <<"borrower", " ", "lender">>, <<"interest">>, <<"Rate">>, <<"services">>,
      <<"SLA", " ", "deliverables">> }

ClassParagraphs ==
    [text : ClassTexts, style : {NormalStyle}]
        \cup [text : {<<"x">>, <<"LOAN">>}, style : {HeadingStyle}]

InitClassify ==
    /\ doc \in [paragraphs : SeqsUpTo(ClassParagraphs, MaxClassParas), tables : {<<>>}]
    /\ InitResults
    /\ pc = "uploaded"

SpecClassify == InitClassify /\ [][NextExtract]_vars

----------------------------------------------------------------------------
(* Claims about _classify_document *)

TypeOrder == <<LEASE, LOAN, MSA>>

KeywordsOf(type) == Range(rules[CHOOSE r \in 1..Len(rules) : rules[r].key = type].value)

\* the number of the type's keywords that occur in the lower-cased, space-joined
\* section values
Hits(type) ==
    Cardinality({kw \in KeywordsOf(type) :
                    contains(lower(join(<<" ">>, Values(sections))), kw)})

\* C7: the document type is the one with the most keyword hits, the earliest of
\* LEASE, LOAN, MSA among those sharing the highest count; with no hit at all
\* (an empty SectionMap included) it is LEASE.
C7_Classify ==
    pc = "extracted" =>
        \E w \in 1..Len(TypeOrder) :
            /\ document_type = TypeOrder[w]
            /\ \A o \in 1..Len(TypeOrder) : Hits(TypeOrder[o]) <= Hits(TypeOrder[w])
            /\ \A o \in 1..(w - 1) : Hits(TypeOrder[o]) < Hits(TypeOrder[w])
            /\ (\A o \in 1..Len(TypeOrder) : Hits(TypeOrder[o]) = 0) => document_type = LEASE

C7_Witness ==
    /\ pc = "extracted"
    /\ Hits(LEASE) = 1
    /\ Hits(LOAN) = 2
    /\ Hits(MSA) = 2
    /\ document_type = LOAN

----------------------------------------------------------------------------
(* validate_document *)

PASSED == "passed"
FAILED == "failed"
WARNING == "warning"

required_sections == << <<"header">>, <<"parties">>, <<"terms">> >>

\* a check that is content with any one of the required sections
RequiredSectionsAny(secs) ==
    IF \E r \in 1..Len(required_sections) : required_sections[r] \in Keys(secs)
    THEN PASSED ELSE FAILED

\* PASSED if all(section in doc_data["sections"] ...) else FAILED
RequiredSections(secs) ==
    IF \A r \in 1..Len(required_sections) : required_sections[r] \in Keys(secs)
    THEN PASSED ELSE FAILED

SignatureValidation(sigs) == IF sigs.has_signature_block THEN PASSED ELSE WARNING

\* a comparison that also warns on equal dates
DateOrderInclusive(effective_date, execution_date) ==
    IF effective_date <= execution_date THEN WARNING ELSE PASSED

DateOrder(effective_date, execution_date) ==
    IF effective_date < execution_date THEN WARNING ELSE PASSED

DateKeys == {"effective_date", "execution_date"}

\* doc_data is the extraction result plus the date keys the caller supplies
validate_document(doc_data) ==
    LET rule_names == {"required_sections", "signatures"}
                          \cup (IF DateKeys \subseteq DOMAIN doc_data.dates
                                THEN {"date_order"} ELSE {})
    IN  [r \in rule_names |->
            CASE r = "required_sections" -> RequiredSections(doc_data.sections)
              [] r = "signatures" -> SignatureValidation(doc_data.signatures)
              [] r = "date_order" -> DateOrder(doc_data.dates["effective_date"],
                                               doc_data.dates["execution_date"])]

\* the date keys a caller may add to doc_data, with their values
DateInputs == UNION {[K -> 1..MaxDate] : K \in SUBSET DateKeys}

ValidateDocument ==
    /\ pc = "extracted"
    /\ \E d \in DateInputs :
           /\ dates' = d
           /\ validations' = validate_document(
                  [sections |-> sections, signatures |-> signatures, dates |-> d])
    /\ pc' = "validated"
    /\ UNCHANGED <<doc, sections, tables, signatures, document_type, analysis, flat_data>>

\* Documents whose paragraphs exercise validation
ValidationParagraphs ==
    [text : {<<"x">>, <<"SIGNATURE">>}, style : {NormalStyle}]
        \cup [text : {<<"Parties">>, <<"TERMS">>}, style : {HeadingStyle}]

InitValidate ==
    /\ doc \in [paragraphs : SeqsUpTo(ValidationParagraphs, MaxValParas), tables : {<<>>}]
    /\ InitResults
    /\ pc = "uploaded"

NextValidate == ExtractTextFromWord \/ ValidateDocument

SpecValidate == InitValidate /\ [][NextValidate]_vars

----------------------------------------------------------------------------
(* Claims about validate_document *)

\* C8: required_sections is PASSED iff 'header', 'parties' and 'terms' are all keys
\* of the SectionMap and FAILED otherwise, whatever the section values, the
\* signature report and the dates.
C8_RequiredSections ==
    pc = "validated" =>
        validations["required_sections"]
            = IF {<<"header">>, <<"parties">>, <<"terms">>} \subseteq Keys(sections)
              THEN PASSED ELSE FAILED

C8_Witness ==
    /\ pc = "validated"
    /\ validations["required_sections"] = PASSED
    /\ ~signatures.has_signature_block
    /\ DOMAIN dates = {"execution_date"}

\* C9: date_order is in the result iff both dates are supplied; it is then WARNING
\* when effective_date is strictly before execution_date and PASSED otherwise, never
\* FAILED; required_sections and signatures are always in the result, and signatures
\* is PASSED with a signature block and WARNING without, never FAILED.
C9_Rules ==
    pc = "validated" =>
        /\ "date_order" \in DOMAIN validations <=> DateKeys \subseteq DOMAIN dates
        /\ "date_order" \in DOMAIN validations =>
               /\ validations["date_order"]
                      = IF dates["effective_date"] < dates["execution_date"]
                        THEN WARNING ELSE PASSED
               /\ validations["date_order"] # FAILED
        /\ {"required_sections", "signatures"} \subseteq DOMAIN validations
        /\ validations["signatures"]
               = IF signatures.has_signature_block THEN PASSED ELSE WARNING
        /\ validations["signatures"] # FAILED

C9_Witness ==
    /\ pc = "validated"
    /\ DOMAIN dates = DateKeys
    /\ dates["effective_date"] = dates["execution_date"]
    /\ validations["date_order"] = PASSED
    /\ validations["signatures"] = WARNING

----------------------------------------------------------------------------
(* export_to_csv and _flatten_json *)

\* a JSON value: a leaf (anything that is not a dict) or a dict of entries
Leaf(v) == [kind |-> "leaf", val |-> v, items |-> <<>>]
Dict(items) == [kind |-> "dict", val |-> None, items |-> items]

\* dict(items): a later pair replaces the value of an earlier pair with its key
RECURSIVE DictFromItems(_, _)
DictFromItems(items, d) ==
    IF items = <<>> THEN d
    ELSE DictFromItems(Tail(items), DictSet(d, Head(items).key, Head(items).value))

\* a composite key that forgets the separator
NewKeyNoSep(parent_key, sep, k) == parent_key \o k

\* f"{parent_key}{sep}{k}" if parent_key else k
NewKey(parent_key, sep, k) ==
    IF parent_key # <<>> THEN parent_key \o sep \o k ELSE k

RECURSIVE _flatten_json(_, _, _)
RECURSIVE FlattenLoop(_, _, _, _, _)
FlattenLoop(nested_json, parent_key, sep, i, items) ==
    IF i > Len(nested_json) THEN items
    ELSE LET k == nested_json[i].key
             v == nested_json[i].value
             new_key == NewKey(parent_key, sep, k)
         IN  IF v.kind = "dict"
             THEN FlattenLoop(nested_json, parent_key, sep, i + 1,
                              items \o _flatten_json(v.items, new_key, sep))
             ELSE FlattenLoop(nested_json, parent_key, sep, i + 1,
                              Append(items, [key |-> new_key, value |-> v]))

_flatten_json(nested_json, parent_key, sep) ==
    DictFromItems(FlattenLoop(nested_json, parent_key, sep, 1, <<>>), <<>>)

ExportToCsv ==
    /\ pc = "loaded"
    /\ flat_data' = _flatten_json(analysis, <<>>, <<"_">>)
    /\ pc' = "exported"
    /\ UNCHANGED <<doc, sections, tables, signatures, document_type, dates,
                   validations, analysis>>

\* Nested JSON to export: keys that collide once joined, and the empty key
JsonKeys == { <<>>, <<"a">>, <<"b">>, <<"a", "_", "b">> }

JsonLeaves == {Leaf("v1"), Leaf("v2")}

\* the dicts with n entries in all, those of nested dicts included
RECURSIVE NestedOfSize(_)
NestedOfSize(n) ==
    IF n = 0 THEN {<<>>}
    ELSE UNION {
            LET firsts == IF s = 0 THEN JsonLeaves \cup {Dict(<<>>)}
                          ELSE {Dict(d) : d \in NestedOfSize(s)}
            IN  UNION { { <<[key |-> k, value |-> v]>> \o rest :
                              k \in JsonKeys \ Keys(rest) } :
                        v \in firsts, rest \in NestedOfSize(n - 1 - s) }
            : s \in 0..(n - 1) }

InitFlatten ==
    /\ doc = [paragraphs |-> <<>>, tables |-> <<>>]
    /\ sections = <<>>
    /\ tables = <<>>
    /\ signatures = NoSignatures
    /\ document_type = "none"
    /\ dates = NoDates
    /\ validations = NoDates
    /\ analysis \in UNION {NestedOfSize(n) : n \in 0..MaxNodes}
    /\ flat_data = <<>>
    /\ pc = "loaded"

NextFlatten == ExportToCsv

SpecFlatten == InitFlatten /\ [][NextFlatten]_vars

----------------------------------------------------------------------------
(* Claims about _flatten_json *)

\* the leaves of a nested dict in iteration order, each with its path of keys
RECURSIVE LeavesOf(_, _)
LeavesOf(d, path) ==
    IF d = <<>> THEN <<>>
    ELSE LET p == Append(path, Head(d).key)
         IN  (IF Head(d).value.kind = "dict"
              THEN LeavesOf(Head(d).value.items, p)
              ELSE << [path |-> p, value |-> Head(d).value] >>)
             \o LeavesOf(Tail(d), path)

Leaves == LeavesOf(analysis, <<>>)

\* "_".join(path)
JoinedPath(path) == join(<<"_">>, path)

\* the key the code forms: empty keys at the head of the path add nothing
RECURSIVE DropEmptyHead(_)
DropEmptyHead(path) ==
    IF path # <<>> /\ Head(path) = <<>> THEN DropEmptyHead(Tail(path)) ELSE path

CompositeKey(path) == JoinedPath(DropEmptyHead(path))

\* C10 as stated: every leaf of the input is in the output under its path joined
\* with '_', and the output has as many entries as the input has leaves.
C10_Original ==
    pc = "exported" =>
        /\ \A l \in 1..Len(Leaves) :
               \E e \in 1..Len(flat_data) :
                   /\ flat_data[e].key = JoinedPath(Leaves[l].path)
                   /\ flat_data[e].value = Leaves[l].value
        /\ Len(flat_data) = Len(Leaves)

\* C10 (amended): the output has exactly one entry per distinct composite key of a
\* leaf (its path joined with '_', empty keys at the head of the path dropped),
\* holding the value of the last leaf with that key; so every leaf is kept, and the
\* entries are as many as the leaves, when no two leaves share a composite key.
C10_Flatten ==
    pc = "exported" =>
        /\ Keys(flat_data) = {CompositeKey(Leaves[l].path) : l \in 1..Len(Leaves)}
        /\ Len(flat_data) = Cardinality(Keys(flat_data))
        /\ \A l \in 1..Len(Leaves) :
               (\A m \in (l + 1)..Len(Leaves) :
                    CompositeKey(Leaves[m].path) # CompositeKey(Leaves[l].path))
                   => Get(flat_data, CompositeKey(Leaves[l].path)) = Leaves[l].value
        /\ (\A l, m \in 1..Len(Leaves) :
                l # m => CompositeKey(Leaves[l].path) # CompositeKey(Leaves[m].path))
               => Len(flat_data) = Len(Leaves)

C10_Witness ==
    /\ pc = "exported"
    /\ Len(Leaves) = 2
    /\ Leaves[1].path = << <<"a">>, <<"b">> >>
    /\ Leaves[2].path = << <<"a", "_", "b">> >>
    /\ Leaves[1].value # Leaves[2].value
    /\ flat_data = << [key |-> <<"a", "_", "b">>, value |-> Leaves[2].value] >>

====
